---- MODULE Spec2Model ----
(***************************************************************************)
(* Holobac: the game-state engine of src/game (deck, player, dealer) and   *)
(* the session handlers of src/bot.py that drive it.                       *)
(*                                                                         *)
(* A game session is the dict `state` built by start_game; game_sessions   *)
(* maps the user id to it.  The button handlers are coroutines: each       *)
(* action below is the code of one handler between two awaits, `pc` is the *)
(* await a handler is suspended at.  Presentation (embeds, images, the     *)
(* commentary text, the bet) carries no rule logic and is left out.        *)
(*                                                                         *)
(* The deck of a game is a shuffled deck of few cards of three kinds: the  *)
(* deck functions work on a list of any length and every caller tests the  *)
(* card it is handed for None.  With the 135 cards of three full decks a   *)
(* game of three rounds cannot use the deck up; the short decks are what   *)
(* brings the code for an exhausted deck into play.                        *)
(*                                                                         *)
(* Besides Spec (the handlers of one user, await by await) the module has  *)
(* SpecPolicy and SpecAddCard (assign_joker_value and add_card applied to  *)
(* every small hand), SpecDeck (the full combined deck built, shuffled and *)
(* drained), SpecSessions (game_sessions with two users, a handler per     *)
(* step), SpecRace (two handlers of one user interleaved at their awaits)  *)
(* and SpecPlay (Dealer.play, one pass of its loop per step).              *)
(***************************************************************************)
EXTENDS Integers, Sequences, FiniteSets, TLC

(***************************************************************************)
(* Bounds of the model.                                                    *)
(***************************************************************************)
\* longest run of arbitrary cards (of the kinds of CardPool) at the top of a deck
MaxShortDeck == 6
\* the run of twelves that may follow it: enough cards to deal three rounds
TailLen == 12
\* most joker selection views open on a session at once
MaxSelectViews == 1
\* most joker values the user selects in one session
MaxSelections == 1
\* most cards in the player's hand when the user presses DRAW again
MaxHand == 2
\* most ranked cards in a dealer hand handed to assign_joker_value
MaxPolicyHand == 3
\* the positions of a combined deck whose cards shuffle_deck rearranges
MaxShuffled == 5
\* most twelves above the joker of a deck when several users play
SessionTop == 4
\* most twelves above the joker of a deck when two handlers race
RaceTop == 7
\* most cards of the deck handed to Dealer.play
MaxPlayDeck == 3

(***************************************************************************)
(* deck.py                                                                 *)
(***************************************************************************)
\* Python None, as a missing card value / an unset score slot
None == -1

\* Card(suit, rank): a standard card
Card(suit, rank) == [suit |-> suit, rank |-> rank, is_joker |-> FALSE]

\* Card(is_joker=True): suit and rank stay None
Joker == [suit |-> "None", rank |-> None, is_joker |-> TRUE]

\* what draw_card returns for an empty deck (None); a Card object is truthy
NoCard == [suit |-> "None", rank |-> None, is_joker |-> FALSE]

suits == <<"basto", "copa", "espada", "oro">>
ranks == <<1, 2, 3, 4, 5, 6, 7, 10, 11, 12>>

\* a single deck with one joker short
create_single_spanish_deck_four_jokers(include_jokers) ==
    LET ranked == [i \in 1..(Len(suits) * Len(ranks)) |->
                      Card(suits[((i - 1) \div Len(ranks)) + 1],
                           ranks[((i - 1) % Len(ranks)) + 1])]
    IN  IF include_jokers THEN ranked \o [i \in 1..4 |-> Joker] ELSE ranked

\* create_single_spanish_deck(include_jokers): every rank of every suit, suit
\* by suit, then the 5 jokers
create_single_spanish_deck(include_jokers) ==
    LET ranked == [i \in 1..(Len(suits) * Len(ranks)) |->
                      Card(suits[((i - 1) \div Len(ranks)) + 1],
                           ranks[((i - 1) % Len(ranks)) + 1])]
    IN  IF include_jokers THEN ranked \o [i \in 1..5 |-> Joker] ELSE ranked

\* create_combined_deck(num_decks): num_decks single decks one after the other
RECURSIVE create_combined_deck(_)
create_combined_deck(num_decks) ==
    IF num_decks = 0 THEN <<>>
    ELSE create_combined_deck(num_decks - 1) \o create_single_spanish_deck(TRUE)

\* draw_card without the test for an empty deck: it hands out a card anyway
draw_card_unchecked(deck) ==
    IF Len(deck) = 0
    THEN [card |-> Joker, deck |-> deck]
    ELSE [card |-> Head(deck), deck |-> Tail(deck)]

\* a draw that returns deck[0] and leaves it in the deck
draw_card_peek(deck) ==
    IF Len(deck) = 0
    THEN [card |-> NoCard, deck |-> deck]
    ELSE [card |-> Head(deck), deck |-> deck]

\* draw_card(deck): pops the front card; None when the deck is empty
draw_card(deck) ==
    IF Len(deck) = 0
    THEN [card |-> NoCard, deck |-> deck]
    ELSE [card |-> Head(deck), deck |-> Tail(deck)]

(***************************************************************************)
(* player.py                                                               *)
(***************************************************************************)
\* Player(name) / Dealer(): a fresh participant
Player == [hand |-> <<>>, round_score |-> 0, is_busted |-> FALSE]

\* Player.reset_round
reset_round(p) == [p EXCEPT !.hand = <<>>, !.round_score = 0, !.is_busted = FALSE]

\* Player.add_card raises ValueError: a joker with no value
add_card_raises(card, card_value) == card.is_joker /\ card_value = None

\* add_card without its bust check
add_card_no_bust(p, card, card_value) ==
    IF add_card_raises(card, card_value)
    THEN p
    ELSE LET value == IF card.is_joker THEN card_value ELSE card.rank
         IN  [hand |-> Append(p.hand, <<card, value>>),
              round_score |-> p.round_score + value,
              is_busted |-> p.is_busted]

\* add_card with the score held at 30
add_card_clamped(p, card, value_given) ==
    IF add_card_raises(card, value_given)
    THEN p
    ELSE LET value == IF card.is_joker THEN value_given ELSE card.rank
             score == IF p.round_score + value > 30 THEN 30 ELSE p.round_score + value
         IN  [hand |-> Append(p.hand, <<card, value>>),
              round_score |-> score,
              is_busted |-> IF p.round_score + value > 30 THEN TRUE ELSE p.is_busted]

\* Player.add_card(card, card_value): the participant after the call
add_card(p, card, card_value) ==
    IF add_card_raises(card, card_value)
    THEN p
    ELSE LET value == IF card.is_joker THEN card_value ELSE card.rank
             score == p.round_score + value
         IN  [hand |-> Append(p.hand, <<card, value>>),
              round_score |-> score,
              is_busted |-> IF score > 30 THEN TRUE ELSE p.is_busted]

\* sum of the assigned values of a hand
RECURSIVE SumValues(_)
SumValues(hand) ==
    IF hand = <<>> THEN 0 ELSE hand[1][2] + SumValues(Tail(hand))

(***************************************************************************)
(* dealer.py                                                               *)
(***************************************************************************)
possible_values == <<12, 11, 10, 7, 6, 5, 4, 3, 2, 1>>

\* the scan with `<` for `<=`
RECURSIVE scan_strict(_, _)
scan_strict(score, i) ==
    IF i > Len(possible_values) THEN 1
    ELSE IF score + possible_values[i] < 30 THEN possible_values[i]
    ELSE scan_strict(score, i + 1)

\* the scan without its test: the first value of the list
scan_first_listed(score, i) == possible_values[i]

\* Dealer.assign_joker_value: the scan of possible_values from index i on
RECURSIVE scan_possible_values(_, _)
scan_possible_values(score, i) ==
    IF i > Len(possible_values) THEN 1
    ELSE IF score + possible_values[i] <= 30 THEN possible_values[i]
    ELSE scan_possible_values(score, i + 1)

assign_joker_value(d) == scan_possible_values(d.round_score, 1)

\* Dealer.play(deck): the dealer and the deck when the loop has ended
RECURSIVE play(_, _)
play(d, deck) ==
    IF d.round_score < 24 /\ ~d.is_busted
    THEN LET r == draw_card(deck)
         IN  IF r.card = NoCard
             THEN [dealer |-> d, deck |-> r.deck]
             ELSE IF r.card.is_joker
             THEN play(add_card(d, r.card, assign_joker_value(d)), r.deck)
             ELSE play(add_card(d, r.card, None), r.deck)
    ELSE [dealer |-> d, deck |-> deck]

(***************************************************************************)
(* bot.py: the session state                                               *)
(***************************************************************************)
\* the one user of this session
user_id == "u1"

\* the select options of JokerSelectView
select_options == {2, 3, 4, 5, 6, 7, 10, 11, 12}

\* the options the user of the model picks from: the least and the greatest
chosen_values == {v \in select_options :
                    \A w \in select_options : v <= w \/ \A x \in select_options : x <= v}

\* the dealing loop `for _ in range(2)` of start_game / start_new_round:
\* a joker is added with joker_value, an empty draw is skipped
RECURSIVE deal(_, _, _, _)
deal(p, deck, joker_value, n) ==
    IF n = 0 THEN [p |-> p, deck |-> deck]
    ELSE LET r == draw_card(deck)
         IN  IF r.card = NoCard THEN deal(p, r.deck, joker_value, n - 1)
             ELSE IF r.card.is_joker
             THEN deal(add_card(p, r.card, joker_value), r.deck, joker_value, n - 1)
             ELSE deal(add_card(p, r.card, None), r.deck, joker_value, n - 1)

\* `len(player.hand) == 2 and all(c[0].is_joker for c in player.hand)`
two_jokers(p) == Len(p.hand) = 2 /\ \A i \in 1..2 : p.hand[i][1].is_joker

\* the two-joker rule without the player_done flag
two_joker_rule_not_done(s) ==
    IF two_jokers(s.player) THEN [s EXCEPT !.player.round_score = 30] ELSE s

\* the two-joker rule at the end of start_game / start_new_round
two_joker_rule(s) ==
    IF two_jokers(s.player)
    THEN [s EXCEPT !.player.round_score = 30, !.player_done = TRUE]
    ELSE s

\* start_game, on the deck shuffle_deck left
start_game(shuffled_deck) ==
    LET p == deal(Player, shuffled_deck, 0, 2)
        d == deal(Player, p.deck, 10, 2)
    IN  two_joker_rule(
          [deck |-> d.deck,
           player |-> p.p,
           dealer |-> d.p,
           round |-> 1,
           player_round_scores |-> <<None, None, None>>,
           dealer_round_scores |-> <<None, None, None>>,
           player_done |-> FALSE])

\* start_new_round dealing to the dealer before the player
start_new_round_dealer_first(s) ==
    LET d == deal(reset_round(s.dealer), s.deck, 10, 2)
        p == deal(reset_round(s.player), d.deck, 0, 2)
    IN  two_joker_rule(
          [s EXCEPT !.deck = p.deck, !.player = p.p, !.dealer = d.p,
                    !.player_done = FALSE])

\* start_new_round(state)
start_new_round(s) ==
    LET p == deal(reset_round(s.player), s.deck, 0, 2)
        d == deal(reset_round(s.dealer), p.deck, 10, 2)
    IN  two_joker_rule(
          [s EXCEPT !.deck = d.deck, !.player = p.p, !.dealer = d.p,
                    !.player_done = FALSE])

\* `s if s else 0`
safe(x) == IF x = None \/ x = 0 THEN 0 ELSE x

\* sum(s if s else 0 for s in scores)
total(scores) == safe(scores[1]) + safe(scores[2]) + safe(scores[3])

\* check_game_end with a tie counted as a win
final_title_tie_wins(total_player, total_dealer) ==
    IF total_player >= total_dealer THEN "Well Played!"
    ELSE "Better Luck Next Time!"

\* check_game_end: the title of the final embed
final_title_of(total_player, total_dealer) ==
    IF total_player > total_dealer THEN "Well Played!"
    ELSE IF total_player < total_dealer THEN "Better Luck Next Time!"
    ELSE "It's a Tie!"

\* the loop condition with `<=` for `<`
dealer_draws_at_24(d) == d.round_score <= 24 /\ ~d.is_busted

\* the condition of the dealer loop of stand_button / auto_stand
dealer_draws(d) == d.round_score < 24 /\ ~d.is_busted

\* one pass of the body of that loop: a joker counts 10, an empty draw is skipped
dealer_iteration(s) ==
    LET r == draw_card(s.deck)
    IN  [s EXCEPT !.deck = r.deck,
                  !.dealer = IF r.card = NoCard THEN @
                             ELSE IF r.card.is_joker THEN add_card(@, r.card, 10)
                             ELSE add_card(@, r.card, None)]

\* the dealer loop of stand_button / auto_stand run to its end; it has no end
\* (ends is FALSE) when the condition holds and the deck is empty, as a pass
\* then changes nothing
RECURSIVE dealer_loop_result(_)
dealer_loop_result(s) ==
    IF ~dealer_draws(s.dealer)
    THEN [ends |-> TRUE, dealer |-> s.dealer, deck |-> s.deck]
    ELSE IF Len(s.deck) = 0
    THEN [ends |-> FALSE, dealer |-> s.dealer, deck |-> s.deck]
    ELSE dealer_loop_result(dealer_iteration(s))

\* the settlement with the dealer's bust forgotten
settle_dealer_bust_kept(s, player_score) ==
    [s EXCEPT !.player_round_scores[s.round] = player_score,
              !.dealer_round_scores[s.round] = s.dealer.round_score,
              !.round = @ + 1]

\* the settlement with the player's round_score written whatever player_score is
settle_player_score_kept(s, player_score) ==
    LET dealer_score == IF s.dealer.is_busted THEN 0 ELSE s.dealer.round_score
    IN  [s EXCEPT !.player_round_scores[s.round] = s.player.round_score,
                  !.dealer_round_scores[s.round] = dealer_score,
                  !.round = @ + 1]

\* the settlement without `state["round"] += 1`
settle_round_kept(s, player_score) ==
    LET dealer_score == IF s.dealer.is_busted THEN 0 ELSE s.dealer.round_score
    IN  [s EXCEPT !.player_round_scores[s.round] = player_score,
                  !.dealer_round_scores[s.round] = dealer_score]

\* the settlement after the loop: both round scores written at round - 1,
\* then `state["round"] += 1`
settle(s, player_score) ==
    LET dealer_score == IF s.dealer.is_busted THEN 0 ELSE s.dealer.round_score
        r_idx == s.round
    IN  [s EXCEPT !.player_round_scores[r_idx] = player_score,
                  !.dealer_round_scores[r_idx] = dealer_score,
                  !.round = @ + 1]

(***************************************************************************)
(* bot.py: the handlers                                                    *)
(***************************************************************************)
VARIABLES
    shuffled,        \* the order random.shuffle gives the deck of a new game
    state,           \* the session dict built by start_game
    game_sessions,   \* the user ids with an entry in game_sessions (-> state)
    final_title,     \* the title of the final embed, "none" until game over
    select_views,    \* JokerSelectViews open on state, counted up to MaxSelectViews
    selections,      \* joker values selected on state so far
    pc,              \* per running handler: the await it is suspended at
    busted,          \* per handler: the `busted` argument of auto_stand
    c,               \* per handler: the card its last draw_card returned
    policy_value,    \* the value assign_joker_value returned, None before the call
    card_value,      \* the card_value argument of an add_card call
    drawn,           \* the cards draw_card has returned while a deck is drained
    sessions,        \* game_sessions of several users: user id -> session dict
    joker_views,     \* the owners (self.user_id) of the open JokerSelectViews
    actor            \* interaction.user.id of the last interaction handled

\* the variables of the calls checked on their own / of the sessions of several users
unit_vars == <<card_value, drawn>>
multi_vars == <<sessions, joker_views, actor>>

vars == <<shuffled, state, game_sessions, final_title, select_views, selections, pc,
          busted, c, policy_value, unit_vars, multi_vars>>

CardPool == {Joker, Card("oro", 6), Card("oro", 12)}

Twelves(n) == [i \in 1..n |-> Card("oro", 12)]

SeqsUpTo(S, n) == UNION {[1..k -> S] : k \in 0..n}

\* the decks create_combined_deck + shuffle_deck may leave, cut down to few
\* cards: at least the 2 + 2 cards of the first deal
ShuffledDecks ==
    {d \in {top \o Twelves(n) : top \in SeqsUpTo(CardPool, MaxShortDeck),
                                n \in {0, TailLen}} : Len(d) >= 2 + 2}

Min(a, b) == IF a < b THEN a ELSE b

\* the lookup without `if state is None: state = start_game(uid)`
session_state_no_fallback == state

\* `state = game_sessions.get(uid); if state is None: state = start_game(uid)`
session_state == IF user_id \in game_sessions THEN state ELSE start_game(shuffled)

\* the views and the title that go with the state session_state returns
session_views == IF user_id \in game_sessions THEN select_views ELSE 0
session_title == IF user_id \in game_sessions THEN final_title ELSE "none"
session_selections == IF user_id \in game_sessions THEN selections ELSE 0

\* holobac_command / EndGameView.play_again_button: a new session replaces the old
NewSession ==
    /\ state' = start_game(shuffled)
    /\ game_sessions' = game_sessions \cup {user_id}
    /\ final_title' = "none"
    /\ select_views' = 0
    /\ selections' = 0
    /\ UNCHANGED <<shuffled, pc, busted, c, policy_value, unit_vars, multi_vars>>

holobac_command ==
    /\ \A h \in DOMAIN pc : pc[h] = "idle"
    /\ NewSession

play_again_button ==
    /\ \A h \in DOMAIN pc : pc[h] = "idle"
    /\ final_title # "none"
    /\ NewSession

\* draw_button up to `await asyncio.sleep(0.5)`
draw_click(h) ==
    /\ pc[h] = "idle"
    /\ Len(session_state.player.hand) <= MaxHand
    /\ pc' = [pc EXCEPT ![h] = "draw"]
    /\ UNCHANGED <<shuffled, state, game_sessions, final_title, select_views, selections,
                   busted, c, policy_value, unit_vars, multi_vars>>

\* draw_button from the session lookup to its next await
draw_button(h) ==
    /\ pc[h] = "draw"
    /\ LET s0 == session_state
           r == draw_card(s0.deck)
           s1 == [s0 EXCEPT !.deck = r.deck]
       IN  /\ game_sessions' = game_sessions \cup {user_id}
           /\ final_title' = session_title
           /\ selections' = session_selections
           /\ IF r.card # NoCard /\ r.card.is_joker
              THEN /\ state' = [s1 EXCEPT !.player = add_card(@, r.card, 0)]
                   /\ select_views' = Min(session_views + 1, MaxSelectViews)
                   /\ pc' = [pc EXCEPT ![h] = "idle"]
                   /\ UNCHANGED <<busted, c>>
              ELSE LET p1 == IF r.card # NoCard
                             THEN add_card(s1.player, r.card, None)
                             ELSE s1.player
                   IN  /\ select_views' = session_views
                       /\ IF p1.round_score > 30
                          THEN /\ state' = [s1 EXCEPT !.player =
                                               [p1 EXCEPT !.is_busted = TRUE]]
                               /\ pc' = [pc EXCEPT ![h] = "auto_stand"]
                               /\ busted' = [busted EXCEPT ![h] = TRUE]
                               /\ UNCHANGED c
                          ELSE IF p1.round_score = 30
                          THEN /\ state' = [s1 EXCEPT !.player = p1]
                               /\ pc' = [pc EXCEPT ![h] = "auto_stand"]
                               /\ busted' = [busted EXCEPT ![h] = FALSE]
                               /\ UNCHANGED c
                          ELSE /\ state' = [s1 EXCEPT !.player = p1]
                               /\ pc' = [pc EXCEPT ![h] = "idle"]
                               /\ UNCHANGED <<busted, c>>
    /\ UNCHANGED <<shuffled, policy_value, unit_vars, multi_vars>>

\* stand_button up to `await asyncio.sleep(0.5)`
stand_click(h) ==
    /\ pc[h] = "idle"
    /\ pc' = [pc EXCEPT ![h] = "stand"]
    /\ UNCHANGED <<shuffled, state, game_sessions, final_title, select_views, selections,
                   busted, c, policy_value, unit_vars, multi_vars>>

\* the pcs of a handler that is about to test the condition of the dealer loop:
\* on entry ("stand": stand_button, "auto_stand": auto_stand) or suspended at
\* the `await asyncio.sleep(1)` that ends a pass ("stand_loop", "auto_loop")
loop_pcs == {"stand", "stand_loop", "auto_stand", "auto_loop"}
in_loop_pcs == {"stand_loop", "auto_loop"}

\* the dealer loop of stand_button / auto_stand, one pass up to its
\* `await asyncio.sleep(1)`
dealer_loop(h) ==
    /\ pc[h] \in loop_pcs
    /\ LET s0 == IF pc[h] = "stand" THEN session_state ELSE state
       IN  /\ dealer_draws(s0.dealer)
           /\ state' = dealer_iteration(s0)
           /\ c' = [c EXCEPT ![h] = draw_card(s0.deck).card]
           /\ pc' = [pc EXCEPT ![h] = IF pc[h] \in {"stand", "stand_loop"}
                                      THEN "stand_loop" ELSE "auto_loop"]
           /\ IF pc[h] = "stand"
              THEN /\ game_sessions' = game_sessions \cup {user_id}
                   /\ final_title' = session_title
                   /\ select_views' = session_views
                   /\ selections' = session_selections
              ELSE UNCHANGED <<game_sessions, final_title, select_views, selections>>
    /\ UNCHANGED <<shuffled, busted, policy_value, unit_vars, multi_vars>>

\* the end of the dealer loop: settlement, then check_game_end up to its await
settlement(h) ==
    /\ pc[h] \in loop_pcs
    /\ LET s0 == IF pc[h] = "stand" THEN session_state ELSE state
           player_score ==
               IF pc[h] \in {"auto_stand", "auto_loop"}
               THEN (IF busted[h] THEN 0 ELSE s0.player.round_score)
               ELSE (IF s0.player.is_busted THEN 0 ELSE s0.player.round_score)
           s1 == settle(s0, player_score)
       IN  /\ ~dealer_draws(s0.dealer)
           /\ s0.round \in 1..3       \* r_idx is an index of the score lists
           /\ game_sessions' = IF pc[h] = "stand" THEN game_sessions \cup {user_id}
                               ELSE game_sessions
           /\ select_views' = IF pc[h] = "stand" THEN session_views ELSE select_views
           /\ selections' = IF pc[h] = "stand" THEN session_selections ELSE selections
           /\ IF s1.round = 4
              THEN /\ state' = s1
                   /\ final_title' = final_title_of(total(s1.player_round_scores),
                                                    total(s1.dealer_round_scores))
                   /\ pc' = [pc EXCEPT ![h] = "game_end"]
              ELSE /\ state' = start_new_round(s1)
                   /\ final_title' = IF pc[h] = "stand" THEN session_title
                                     ELSE final_title
                   /\ pc' = [pc EXCEPT ![h] = "idle"]
    /\ c' = [c EXCEPT ![h] = NoCard]
    /\ busted' = [busted EXCEPT ![h] = FALSE]
    /\ UNCHANGED <<shuffled, policy_value, unit_vars, multi_vars>>

\* check_game_end after `await interaction.message.edit`: game_sessions.pop
game_end(h) ==
    /\ pc[h] = "game_end"
    /\ game_sessions' = game_sessions \ {user_id}
    /\ pc' = [pc EXCEPT ![h] = "idle"]
    /\ UNCHANGED <<shuffled, state, final_title, select_views, selections, busted, c,
                   policy_value, unit_vars, multi_vars>>

\* JokerSelectView.select_callback: the chosen value is written to hand[-1]
select_callback(chosen_value) ==
    /\ \A h \in DOMAIN pc : pc[h] = "idle"
    /\ select_views > 0
    /\ selections < MaxSelections
    /\ Len(state.player.hand) > 0      \* hand[-1] of an empty hand raises
    /\ state' = [state EXCEPT !.player.hand[Len(state.player.hand)] =
                                   <<@[1], chosen_value>>]
    /\ select_views' = select_views - 1
    /\ selections' = selections + 1
    /\ UNCHANGED <<shuffled, game_sessions, final_title, pc, busted, c, policy_value, unit_vars, multi_vars>>

Init ==
    /\ shuffled \in ShuffledDecks
    /\ state = start_game(shuffled)
    /\ game_sessions = {user_id}
    /\ final_title = "none"
    /\ select_views = 0
    /\ selections = 0
    /\ pc = [h \in {1} |-> "idle"]
    /\ busted = [h \in {1} |-> FALSE]
    /\ c = [h \in {1} |-> NoCard]
    /\ policy_value = None
    /\ card_value = None
    /\ drawn = <<>>
    /\ sessions = <<>>
    /\ joker_views = {}
    /\ actor = "none"

Next ==
    \/ holobac_command
    \/ play_again_button
    \/ \E h \in DOMAIN pc : draw_click(h)
    \/ \E h \in DOMAIN pc : draw_button(h)
    \/ \E h \in DOMAIN pc : stand_click(h)
    \/ \E h \in DOMAIN pc : dealer_loop(h)
    \/ \E h \in DOMAIN pc : settlement(h)
    \/ \E h \in DOMAIN pc : game_end(h)
    \/ \E v \in chosen_values : select_callback(v)

Spec == Init /\ [][Next]_vars

(***************************************************************************)
(* dealer.py: assign_joker_value on its own                                *)
(***************************************************************************)
\* the hands of at most n ranked cards, as add_card builds them
RECURSIVE HandsUpTo(_)
HandsUpTo(n) ==
    IF n = 0 THEN {Player}
    ELSE LET shorter == HandsUpTo(n - 1)
         IN  shorter \cup {add_card(d, Card("oro", ranks[i]), None) :
                             d \in shorter, i \in 1..Len(ranks)}

\* a dealer holding some ranked cards is about to be handed a joker
InitPolicy ==
    /\ shuffled = <<Joker>>
    /\ \E d \in HandsUpTo(MaxPolicyHand) :
           state = [start_game(<<>>) EXCEPT !.dealer = d, !.deck = shuffled]
    /\ game_sessions = {}
    /\ final_title = "none"
    /\ select_views = 0
    /\ selections = 0
    /\ pc = [h \in {1} |-> "joker_drawn"]
    /\ busted = [h \in {1} |-> FALSE]
    /\ c = [h \in {1} |-> Joker]
    /\ policy_value = None
    /\ card_value = None
    /\ drawn = <<>>
    /\ sessions = <<>>
    /\ joker_views = {}
    /\ actor = "none"

\* `value = self.assign_joker_value()`
assign_joker_value_call(h) ==
    /\ pc[h] = "joker_drawn"
    /\ policy_value' = assign_joker_value(state.dealer)
    /\ pc' = [pc EXCEPT ![h] = "joker_valued"]
    /\ UNCHANGED <<shuffled, state, game_sessions, final_title, select_views, selections,
                   busted, c, unit_vars, multi_vars>>

\* `self.add_card(card, card_value=value)`
add_joker(h) ==
    /\ pc[h] = "joker_valued"
    /\ state' = [state EXCEPT !.dealer = add_card(@, c[h], policy_value), !.deck = <<>>]
    /\ pc' = [pc EXCEPT ![h] = "joker_added"]
    /\ UNCHANGED <<shuffled, game_sessions, final_title, select_views, selections,
                   busted, c, policy_value, unit_vars, multi_vars>>

NextPolicy ==
    \/ \E h \in DOMAIN pc : assign_joker_value_call(h)
    \/ \E h \in DOMAIN pc : add_joker(h)

SpecPolicy == InitPolicy /\ [][NextPolicy]_vars

(***************************************************************************)
(* player.py: add_card on its own                                          *)
(***************************************************************************)
\* the cards handed to add_card: the joker and one card of every rank
cards_added == {Joker} \cup {Card("oro", ranks[i]) : i \in 1..Len(ranks)}

\* the card_value arguments: left out (None), the 0 of a dealt joker, a selection
card_values == {None, 0} \cup chosen_values

\* a participant holding some ranked cards is about to be handed a card
InitAddCard ==
    /\ shuffled = <<>>
    /\ \E p \in HandsUpTo(MaxHand) :
           state = [start_game(<<>>) EXCEPT !.player = p]
    /\ game_sessions = {}
    /\ final_title = "none"
    /\ select_views = 0
    /\ selections = 0
    /\ pc = [h \in {1} |-> "add_card"]
    /\ busted = [h \in {1} |-> FALSE]
    /\ c \in [{1} -> cards_added]
    /\ policy_value = None
    /\ card_value \in card_values
    /\ drawn = <<>>
    /\ sessions = <<>>
    /\ joker_views = {}
    /\ actor = "none"

\* `player.add_card(card, card_value)`: it raises ValueError or returns
add_card_call(h) ==
    /\ pc[h] = "add_card"
    /\ state' = [state EXCEPT !.player = add_card(@, c[h], card_value)]
    /\ pc' = [pc EXCEPT ![h] = IF add_card_raises(c[h], card_value)
                               THEN "raised" ELSE "returned"]
    /\ UNCHANGED <<shuffled, game_sessions, final_title, select_views, selections,
                   busted, c, policy_value, unit_vars, multi_vars>>

NextAddCard == \E h \in DOMAIN pc : add_card_call(h)

SpecAddCard == InitAddCard /\ [][NextAddCard]_vars

(***************************************************************************)
(* deck.py: a combined deck built, shuffled and drained                    *)
(***************************************************************************)
\* the positions shuffle_deck rearranges: spread over the deck, on ranked
\* cards and on jokers
shuffled_positions(deck) ==
    {i \in 1..Len(deck) : \E k \in 1..MaxShuffled : i = 1 + 22 * (k - 1)}

\* the orders random.shuffle may give the deck: the cards at the shuffled
\* positions in any order
shuffles(deck) ==
    LET P == shuffled_positions(deck)
        perms == {f \in [P -> P] : \A a, b \in P : f[a] = f[b] => a = b}
    IN  {[i \in 1..Len(deck) |-> IF i \in P THEN deck[f[i]] ELSE deck[i]] : f \in perms}

InitDeck ==
    /\ shuffled = <<>>
    /\ state = start_game(<<>>)
    /\ game_sessions = {}
    /\ final_title = "none"
    /\ select_views = 0
    /\ selections = 0
    /\ pc = [h \in {1} |-> "start"]
    /\ busted = [h \in {1} |-> FALSE]
    /\ c = [h \in {1} |-> NoCard]
    /\ policy_value = None
    /\ card_value = None
    /\ drawn = <<>>
    /\ sessions = <<>>
    /\ joker_views = {}
    /\ actor = "none"

\* `deck = create_combined_deck(num_decks=3)`
create_combined_deck_call(h) ==
    /\ pc[h] = "start"
    /\ shuffled' = create_combined_deck(3)
    /\ pc' = [pc EXCEPT ![h] = "built"]
    /\ UNCHANGED <<state, game_sessions, final_title, select_views, selections,
                   busted, c, policy_value, unit_vars, multi_vars>>

\* `shuffle_deck(deck)`
shuffle_deck(h) ==
    /\ pc[h] = "built"
    /\ shuffled' \in shuffles(shuffled)
    /\ pc' = [pc EXCEPT ![h] = "shuffled"]
    /\ UNCHANGED <<state, game_sessions, final_title, select_views, selections,
                   busted, c, policy_value, unit_vars, multi_vars>>

\* `draw_card(deck)`, repeated until it returns None
draw_card_call(h) ==
    /\ pc[h] = "shuffled"
    /\ LET r == draw_card(shuffled)
       IN  /\ shuffled' = r.deck
           /\ c' = [c EXCEPT ![h] = r.card]
           /\ drawn' = IF r.card = NoCard THEN drawn ELSE Append(drawn, r.card)
           /\ pc' = [pc EXCEPT ![h] = IF r.card = NoCard THEN "drained" ELSE "shuffled"]
    /\ UNCHANGED <<state, game_sessions, final_title, select_views, selections,
                   busted, policy_value, card_value, multi_vars>>

NextDeck ==
    \/ \E h \in DOMAIN pc : create_combined_deck_call(h)
    \/ \E h \in DOMAIN pc : shuffle_deck(h)
    \/ \E h \in DOMAIN pc : draw_card_call(h)

SpecDeck == InitDeck /\ [][NextDeck]_vars

(***************************************************************************)
(* bot.py: the sessions of several users                                   *)
(*                                                                         *)
(* game_sessions as the dict it is, keyed by interaction.user.id.  Every   *)
(* action is one handler run from its first line to its last.              *)
(***************************************************************************)
\* the users that interact with the bot
users == {user_id, "u2"}

\* the decks shuffle_deck leaves a new session of these users: a joker and a
\* six among twelves, dealt or drawn depending on where they lie
SessionDecks ==
    {Twelves(k) \o <<Joker, Card("oro", 6)>> \o Twelves(TailLen) : k \in 0..SessionTop}

\* game_sessions[uid] = s
put(gs, uid, s) == [x \in DOMAIN gs \cup {uid} |-> IF x = uid THEN s ELSE gs[x]]

\* game_sessions.pop(uid, None)
pop(gs, uid) == [x \in DOMAIN gs \ {uid} |-> gs[x]]

\* `state = game_sessions.get(uid); if state is None: state = start_game(uid)`
lookup(gs, uid, shuffled_deck) ==
    IF uid \in DOMAIN gs THEN gs[uid] ELSE start_game(shuffled_deck)

\* the deck of the session a handler of uid starts when uid has none
fresh_decks(uid) == IF uid \in DOMAIN sessions THEN {<<>>} ELSE SessionDecks

\* select_callback with the test of the interacting user left out
select_allowed_anyone(interaction_user, view_user) == TRUE

\* select_callback: `if interaction.user.id != self.user_id: ... return`
select_allowed(interaction_user, view_user) == interaction_user = view_user

\* from the dealer loop to the end of check_game_end: whether the loop ends,
\* whether the game is over, the state left and the title of the final embed
round_end(s, player_score) ==
    LET b == dealer_loop_result(s)
        s1 == settle([s EXCEPT !.dealer = b.dealer, !.deck = b.deck], player_score)
    IN  [ends |-> b.ends,
         over |-> s1.round = 4,
         state |-> IF s1.round = 4 THEN s1 ELSE start_new_round(s1),
         title |-> final_title_of(total(s1.player_round_scores),
                                  total(s1.dealer_round_scores))]

\* what a handler of uid that ran round_end leaves behind
after_round_end(uid, e) ==
    /\ e.ends
    /\ sessions' = IF e.over THEN pop(sessions, uid) ELSE put(sessions, uid, e.state)
    /\ joker_views' = IF e.over THEN joker_views \ {uid} ELSE joker_views
    /\ final_title' = IF e.over THEN e.title ELSE final_title

InitSessions ==
    /\ shuffled = <<>>
    /\ state = start_game(<<>>)
    /\ game_sessions = {}
    /\ final_title = "none"
    /\ select_views = 0
    /\ selections = 0
    /\ pc = [h \in {1} |-> "idle"]
    /\ busted = [h \in {1} |-> FALSE]
    /\ c = [h \in {1} |-> NoCard]
    /\ policy_value = None
    /\ card_value = None
    /\ drawn = <<>>
    /\ sessions = pop(<<>>, user_id)
    /\ joker_views = {}
    /\ actor = "none"

\* the variables the handlers of the one-user specification work on
single_vars == <<shuffled, state, game_sessions, select_views, selections, pc, busted,
                 c, policy_value>>

\* holobac_command run by uid
user_command(uid) ==
    /\ \E deck \in SessionDecks : sessions' = put(sessions, uid, start_game(deck))
    /\ joker_views' = joker_views \ {uid}
    /\ actor' = uid
    /\ UNCHANGED <<single_vars, final_title, unit_vars>>

\* EndGameView.play_again_button pressed by uid on the final embed of a game
user_play_again(uid) ==
    /\ final_title # "none"
    /\ \E deck \in SessionDecks : sessions' = put(sessions, uid, start_game(deck))
    /\ joker_views' = joker_views \ {uid}
    /\ actor' = uid
    /\ UNCHANGED <<single_vars, final_title, unit_vars>>

\* HolobacView.draw_button pressed by uid
user_draw(uid) ==
    /\ \E deck \in fresh_decks(uid) :
          LET s0 == lookup(sessions, uid, deck)
              r == draw_card(s0.deck)
              s1 == [s0 EXCEPT !.deck = r.deck]
          IN  IF r.card # NoCard /\ r.card.is_joker
              THEN /\ sessions' = put(sessions, uid,
                                      [s1 EXCEPT !.player = add_card(@, r.card, 0)])
                   /\ joker_views' = joker_views \cup {uid}
                   /\ UNCHANGED final_title
              ELSE LET p1 == IF r.card # NoCard
                             THEN add_card(s1.player, r.card, None)
                             ELSE s1.player
                   IN  IF p1.round_score > 30
                       THEN after_round_end(uid,
                              round_end([s1 EXCEPT !.player =
                                            [p1 EXCEPT !.is_busted = TRUE]], 0))
                       ELSE IF p1.round_score = 30
                       THEN after_round_end(uid,
                              round_end([s1 EXCEPT !.player = p1], p1.round_score))
                       ELSE /\ sessions' = put(sessions, uid, [s1 EXCEPT !.player = p1])
                            /\ UNCHANGED <<joker_views, final_title>>
    /\ actor' = uid
    /\ UNCHANGED <<single_vars, unit_vars>>

\* HolobacView.stand_button pressed by uid
user_stand(uid) ==
    /\ \E deck \in fresh_decks(uid) :
          LET s0 == lookup(sessions, uid, deck)
          IN  after_round_end(uid,
                round_end(s0, IF s0.player.is_busted THEN 0 ELSE s0.player.round_score))
    /\ actor' = uid
    /\ UNCHANGED <<single_vars, unit_vars>>

\* JokerSelectView.select_callback: uid selects chosen_value in the view of view_user
user_select(uid, view_user, chosen_value) ==
    /\ view_user \in joker_views
    /\ IF select_allowed(uid, view_user) /\ Len(sessions[view_user].player.hand) > 0
       THEN /\ sessions' = [sessions EXCEPT
                               ![view_user].player.hand[Len(sessions[view_user].player.hand)] =
                                   <<@[1], chosen_value>>]
            /\ joker_views' = joker_views \ {view_user}
       ELSE UNCHANGED <<sessions, joker_views>>
    /\ actor' = uid
    /\ UNCHANGED <<single_vars, final_title, unit_vars>>

NextSessions ==
    \/ \E uid \in users : user_command(uid)
    \/ \E uid \in users : user_play_again(uid)
    \/ \E uid \in users : user_draw(uid)
    \/ \E uid \in users : user_stand(uid)
    \/ \E uid, view_user \in users : \E v \in chosen_values : user_select(uid, view_user, v)

SpecSessions == InitSessions /\ [][NextSessions]_vars

(***************************************************************************)
(* bot.py: two handlers of one user at a time                              *)
(*                                                                         *)
(* The handlers of Spec with two of them in flight: whenever one is        *)
(* suspended at an await the other may run.  A handler inside the dealer   *)
(* loop or auto_stand works on the dict it looked up, so a new session is  *)
(* started here only while no handler holds one.                           *)
(***************************************************************************)
\* the end of the dealer loop on a game whose round counter has passed 3:
\* `state["player_round_scores"][r_idx] = player_score` raises IndexError,
\* which the handler's `except Exception` catches
settlement_raises(h) ==
    /\ pc[h] \in loop_pcs
    /\ LET s0 == IF pc[h] = "stand" THEN session_state ELSE state
       IN  /\ ~dealer_draws(s0.dealer)
           /\ s0.round \notin 1..3
    /\ pc' = [pc EXCEPT ![h] = "idle"]
    /\ c' = [c EXCEPT ![h] = NoCard]
    /\ busted' = [busted EXCEPT ![h] = FALSE]
    /\ UNCHANGED <<shuffled, state, game_sessions, final_title, select_views, selections,
                   policy_value, unit_vars, multi_vars>>

\* the pcs of a handler that holds the dict of a session in its local `state`
holding_pcs == {"stand_loop", "auto_stand", "auto_loop"}

\* holobac_command while other handlers are suspended
race_holobac_command ==
    /\ \A h \in DOMAIN pc : pc[h] \notin holding_pcs
    /\ NewSession

\* EndGameView.play_again_button while other handlers are suspended
race_play_again_button ==
    /\ \A h \in DOMAIN pc : pc[h] \notin holding_pcs
    /\ final_title # "none"
    /\ NewSession

\* the shuffled decks of the raced session: a joker and a six below up to
\* RaceTop twelves, so that either participant may get them in either of
\* the first two rounds, then twelves
RaceDecks ==
    {Twelves(k) \o <<Joker, Card("oro", 6)>> \o Twelves(TailLen) : k \in 0..RaceTop}

InitRace ==
    /\ shuffled \in RaceDecks
    /\ state = start_game(shuffled)
    /\ game_sessions = {user_id}
    /\ final_title = "none"
    /\ select_views = 0
    /\ selections = 0
    /\ pc = [h \in {1, 2} |-> "idle"]
    /\ busted = [h \in {1, 2} |-> FALSE]
    /\ c = [h \in {1, 2} |-> NoCard]
    /\ policy_value = None
    /\ card_value = None
    /\ drawn = <<>>
    /\ sessions = <<>>
    /\ joker_views = {}
    /\ actor = "none"

NextRace ==
    \/ race_holobac_command
    \/ race_play_again_button
    \/ \E h \in DOMAIN pc : draw_click(h)
    \/ \E h \in DOMAIN pc : draw_button(h)
    \/ \E h \in DOMAIN pc : stand_click(h)
    \/ \E h \in DOMAIN pc : dealer_loop(h)
    \/ \E h \in DOMAIN pc : settlement(h)
    \/ \E h \in DOMAIN pc : settlement_raises(h)
    \/ \E h \in DOMAIN pc : game_end(h)
    \/ \E v \in chosen_values : select_callback(v)

SpecRace == InitRace /\ [][NextRace]_vars

(***************************************************************************)
(* dealer.py: Dealer.play, one pass of its loop at a time                  *)
(*                                                                         *)
(* simulate_round deals the dealer two cards (a joker counts 10) and calls *)
(* dealer.play(deck) on what is left of the deck.                          *)
(***************************************************************************)
\* the cards a dealer may be dealt: the joker and one card of every rank
PlayCards == {Joker} \cup {Card("oro", ranks[i]) : i \in 1..Len(ranks)}

\* the cards of the decks play draws from: the joker, the first rank and the
\* last
PlayPool == {Joker, Card("oro", ranks[1]), Card("oro", ranks[Len(ranks)])}

\* `dealer = Dealer()`, the dealing loop, then the deck handed to play
InitPlay ==
    /\ \E dealt \in SeqsUpTo(PlayCards, 2), rest \in SeqsUpTo(PlayPool, MaxPlayDeck) :
          /\ shuffled = dealt \o rest
          /\ state = [start_game(<<>>) EXCEPT !.dealer = deal(Player, dealt, 10, 2).p,
                                             !.deck = rest]
    /\ game_sessions = {}
    /\ final_title = "none"
    /\ select_views = 0
    /\ selections = 0
    /\ pc = [h \in {1} |-> "play"]
    /\ busted = [h \in {1} |-> FALSE]
    /\ c = [h \in {1} |-> NoCard]
    /\ policy_value = None
    /\ card_value = None
    /\ drawn = <<>>
    /\ sessions = <<>>
    /\ joker_views = {}
    /\ actor = "none"

\* `while self.round_score < 24 and not self.is_busted`
play_loops(d) == d.round_score < 24 /\ ~d.is_busted

\* a pass that draws a joker: `value = self.assign_joker_value();
\* self.add_card(card, card_value=value)`
play_joker(h) ==
    /\ pc[h] = "play"
    /\ play_loops(state.dealer)
    /\ LET r == draw_card(state.deck)
       IN  /\ r.card # NoCard
           /\ r.card.is_joker
           /\ policy_value' = assign_joker_value(state.dealer)
           /\ state' = [state EXCEPT !.dealer = add_card(@, r.card, policy_value'),
                                     !.deck = r.deck]
           /\ c' = [c EXCEPT ![h] = r.card]
    /\ UNCHANGED <<shuffled, game_sessions, final_title, select_views, selections, pc,
                   busted, unit_vars, multi_vars>>

\* a pass that draws a ranked card: `self.add_card(card)`
play_ranked(h) ==
    /\ pc[h] = "play"
    /\ play_loops(state.dealer)
    /\ LET r == draw_card(state.deck)
       IN  /\ r.card # NoCard
           /\ ~r.card.is_joker
           /\ state' = [state EXCEPT !.dealer = add_card(@, r.card, None),
                                     !.deck = r.deck]
           /\ c' = [c EXCEPT ![h] = r.card]
    /\ UNCHANGED <<shuffled, game_sessions, final_title, select_views, selections, pc,
                   busted, policy_value, unit_vars, multi_vars>>

\* `if card is None: break`
play_break(h) ==
    /\ pc[h] = "play"
    /\ play_loops(state.dealer)
    /\ draw_card(state.deck).card = NoCard
    /\ pc' = [pc EXCEPT ![h] = "play_done"]
    /\ c' = [c EXCEPT ![h] = NoCard]
    /\ UNCHANGED <<shuffled, state, game_sessions, final_title, select_views, selections,
                   busted, policy_value, unit_vars, multi_vars>>

\* the loop condition fails: `return self.round_score`
play_return(h) ==
    /\ pc[h] = "play"
    /\ ~play_loops(state.dealer)
    /\ pc' = [pc EXCEPT ![h] = "play_done"]
    /\ UNCHANGED <<shuffled, state, game_sessions, final_title, select_views, selections,
                   busted, c, policy_value, unit_vars, multi_vars>>

NextPlay ==
    \/ \E h \in DOMAIN pc : play_joker(h)
    \/ \E h \in DOMAIN pc : play_ranked(h)
    \/ \E h \in DOMAIN pc : play_break(h)
    \/ \E h \in DOMAIN pc : play_return(h)

SpecPlay == InitPlay /\ [][NextPlay]_vars

(***************************************************************************)
(* Properties                                                              *)
(***************************************************************************)
participants == {state.player, state.dealer}

\* C1: in every reachable state the round_score of the player's and of the
\* dealer's hand is the sum of the assigned values of the hand
C1_ScoreIsSumOfValues ==
    \A p \in participants : p.round_score = SumValues(p.hand)

\* C2: in every reachable state, for both participants, is_busted holds
\* exactly when round_score is above 30
C2_BustedIffOver30 ==
    \A p \in participants : p.is_busted <=> (p.round_score > 30)

\* C2 witness: the DRAW handler has just found the player busted
C2_Witness ==
    /\ \E h \in DOMAIN pc : pc[h] = "auto_stand" /\ busted[h]
    /\ state.player.is_busted
    /\ state.player.round_score > 30

\* the value of a score slot, an unset slot counting 0
SlotValue(x) == IF x = None THEN 0 ELSE x
SlotSum(scores) == SlotValue(scores[1]) + SlotValue(scores[2]) + SlotValue(scores[3])

\* C3: once the round counter has passed 3 an outcome is reported, and it is
\* WIN exactly when the player's three scores sum to more than the dealer's,
\* LOSS exactly when to less, TIE exactly when the sums are equal
C3_OutcomeByTotals ==
    LET tp == SlotSum(state.player_round_scores)
        td == SlotSum(state.dealer_round_scores)
    IN  /\ (state.round > 3) <=> (final_title # "none")
        /\ final_title \in {"none", "Well Played!", "Better Luck Next Time!",
                            "It's a Tie!"}
        /\ final_title # "none" =>
              /\ (final_title = "Well Played!") <=> (tp > td)
              /\ (final_title = "Better Luck Next Time!") <=> (tp < td)
              /\ (final_title = "It's a Tie!") <=> (tp = td)

\* C3 witness: a game that ended in a tie with points on the board
C3_Witness ==
    /\ state.round = 4
    /\ final_title = "It's a Tie!"
    /\ SlotSum(state.player_round_scores) > 0

\* C4: every settlement (a handler leaving the dealer loop, entered by STAND
\* or by the automatic stand) writes, at the slot of the round, the player's
\* round_score or 0 if the player is busted and the dealer's round_score or 0
\* if the dealer is busted, leaves the other slots alone and moves the round
\* counter on by exactly one
C4_Settlement ==
    [][\A h \in DOMAIN pc :
          pc[h] \in loop_pcs /\ pc'[h] \notin loop_pcs =>
             LET s0 == IF pc[h] = "stand" THEN session_state ELSE state
                 r == s0.round
             IN  /\ state'.round = r + 1
                 /\ state'.player_round_scores =
                       [s0.player_round_scores EXCEPT ![r] =
                           IF s0.player.is_busted THEN 0 ELSE s0.player.round_score]
                 /\ state'.dealer_round_scores =
                       [s0.dealer_round_scores EXCEPT ![r] =
                           IF s0.dealer.is_busted THEN 0 ELSE s0.dealer.round_score]]_vars

\* C4 witness: round 3 was just settled by the automatic stand of a busted
\* player against a dealer that stood on its score
C4_Witness ==
    /\ \E h \in DOMAIN pc : pc[h] = "game_end"
    /\ state.round = 4
    /\ state.player.is_busted
    /\ state.player_round_scores[3] = 0
    /\ state.dealer.round_score >= 24
    /\ state.dealer_round_scores[3] = state.dealer.round_score

\* the printed ranks of the ranked cards of a hand
RECURSIVE RankSum(_)
RankSum(hand) ==
    IF hand = <<>> THEN 0
    ELSE (IF hand[1][1].is_joker THEN 0 ELSE hand[1][1].rank) + RankSum(Tail(hand))

\* C5: a player whose hand is the two dealt jokers has round_score 30 and the
\* round is marked auto-concluded; the mark is only ever set for a hand that
\* starts with two jokers, and a hand that does not start with two jokers is
\* never lifted to 30 by jokers drawn later; a dealer whose hand is two jokers
\* has 20
C5_TwoJokerRule ==
    /\ two_jokers(state.player) =>
          state.player.round_score = 30 /\ state.player_done
    /\ state.player_done =>
          /\ Len(state.player.hand) >= 2
          /\ state.player.hand[1][1].is_joker
          /\ state.player.hand[2][1].is_joker
    /\ ~state.player_done =>
          state.player.round_score = RankSum(state.player.hand)
    /\ two_jokers(state.dealer) =>
          state.dealer.round_score = 20 /\ ~state.dealer.is_busted

\* C5 witness: both participants were dealt two jokers
C5_Witness ==
    /\ two_jokers(state.player)
    /\ two_jokers(state.dealer)
    /\ state.player_done

\* C6: a DRAW on an auto-concluded round takes no card from the deck and
\* leaves the player's hand and round_score as they are
C6_DrawWhenDoneIsNoOp ==
    [][(\E h \in DOMAIN pc : pc[h] = "draw") /\ session_state.player_done =>
          /\ state'.player = session_state.player
          /\ state'.deck = session_state.deck]_vars

\* the greatest listed value that keeps the score s within 30, 1 if none does
LargestFitting(s) ==
    LET fit == {v \in {possible_values[i] : i \in 1..Len(possible_values)} : s + v <= 30}
    IN  IF fit = {} THEN 1 ELSE CHOOSE v \in fit : \A w \in fit : w <= v

\* C7: the joker value the dealer policy returns for round_score s is the
\* greatest listed value v with s + v <= 30, and 1 when none fits; it is 10
\* for s = 20 and 1 for s = 29
C7_LargestFittingValue ==
    \A h \in DOMAIN pc : pc[h] = "joker_valued" =>
        /\ policy_value = LargestFitting(state.dealer.round_score)
        /\ state.dealer.round_score = 20 => policy_value = 10
        /\ state.dealer.round_score = 29 => policy_value = 1

\* C7 witness: the policy was asked at 29 and answered 1
C7_Witness ==
    /\ \E h \in DOMAIN pc : pc[h] = "joker_valued"
    /\ state.dealer.round_score = 29
    /\ policy_value = 1

C9_ResolutionIsDealerPolicy ==
    LET b == dealer_loop_result(state)
    IN  b.ends => b.dealer = play(state.dealer, state.deck).dealer

\* C10: draw_card on an empty deck returns None and leaves the deck empty, on
\* every call; a draw shortens a deck by one card and never below empty; a
\* handler that was handed None drew from an empty deck
C10_EmptyDrawIsNone ==
    LET r1 == draw_card(state.deck)
        r2 == draw_card(r1.deck)
    IN  /\ state.deck = <<>> =>
              r1 = [card |-> NoCard, deck |-> <<>>] /\ r2 = r1
        /\ state.deck # <<>> =>
              r1.card # NoCard /\ Len(r1.deck) = Len(state.deck) - 1
        /\ r1.deck = <<>> => r2 = [card |-> NoCard, deck |-> <<>>]
        /\ \A h \in DOMAIN pc :
              pc[h] \in in_loop_pcs /\ c[h] = NoCard => state.deck = <<>>

\* C10 witness: a handler in the dealer loop drew from the empty deck
C10_Witness ==
    /\ state.deck = <<>>
    /\ \E h \in DOMAIN pc : pc[h] \in in_loop_pcs /\ c[h] = NoCard

\* C11: add_card called with a joker and no value raises and leaves the hand,
\* round_score and is_busted as they were; called with a card that is not a
\* joker it appends the card with its printed rank whatever value was passed
\* and adds exactly that rank to round_score, which is not held at 30
C11_AddCardContract ==
    [][\A h \in DOMAIN pc : pc[h] = "add_card" =>
          LET p == state.player
              card == c[h]
          IN  /\ card.is_joker /\ card_value = None =>
                    pc'[h] = "raised" /\ state'.player = p
              /\ ~card.is_joker =>
                    /\ pc'[h] = "returned"
                    /\ state'.player.hand = Append(p.hand, <<card, card.rank>>)
                    /\ state'.player.round_score = p.round_score + card.rank]_vars

\* C11 witness: a ranked card passed with a value took the score past 30
C11_Witness ==
    /\ \E h \in DOMAIN pc : pc[h] = "returned" /\ ~c[h].is_joker
    /\ card_value \notin {None, 0}
    /\ state.player.round_score > 30

\* C11 witness of the error: add_card raised on a joker without a value
C11_Raised ==
    \E h \in DOMAIN pc : pc[h] = "raised" /\ c[h].is_joker /\ card_value = None

\* the number of places of a sequence of cards that hold the card x
Count(x, cards) == Cardinality({i \in DOMAIN cards : cards[i] = x})

\* 135 cards: every rank of every suit 3 times and 15 jokers
IsCombinedDeck(cards) ==
    /\ Len(cards) = 135
    /\ \A i \in 1..Len(suits), j \in 1..Len(ranks) :
          Count(Card(suits[i], ranks[j]), cards) = 3
    /\ Count(Joker, cards) = 15
    /\ Cardinality({suits[i] : i \in 1..Len(suits)} \X {ranks[j] : j \in 1..Len(ranks)}) = 40

\* C12: the deck built with 3 copies holds 135 cards, each of the 40 (suit,
\* rank) combinations 3 times and 15 jokers; shuffling keeps that multiset,
\* and while the deck is drained the cards drawn and the cards left make up
\* that multiset, so the drained deck has yielded exactly those 135 cards
C12_DeckOf135 ==
    \A h \in DOMAIN pc :
        /\ pc[h] \in {"built", "shuffled", "drained"} => IsCombinedDeck(drawn \o shuffled)
        /\ pc[h] = "drained" => shuffled = <<>> /\ IsCombinedDeck(drawn)

\* C12 witness: a deck that the shuffle has reordered was drained to the end
C12_Witness ==
    /\ \E h \in DOMAIN pc : pc[h] = "drained" /\ c[h] = NoCard
    /\ shuffled = <<>>
    /\ Len(drawn) = 135
    /\ drawn # create_combined_deck(3)

\* C13: the round counter of a game that is not over is in 1..3, and it is 4
\* exactly when the game is over; the score slots of both participants are
\* set exactly for the rounds below the counter (the rounds already settled)
\* and null for the current and the later rounds, so that a game is over
\* after exactly three settlements
C13_RoundCounterAndSlots ==
    /\ state.round \in 1..4
    /\ final_title = "none" => state.round \in 1..3
    /\ final_title # "none" => state.round = 4
    /\ \A i \in 1..3 :
          /\ (state.player_round_scores[i] # None) <=> (i < state.round)
          /\ (state.dealer_round_scores[i] # None) <=> (i < state.round)

\* C13 witness: an active session in round 3, two rounds settled
C13_Witness ==
    /\ user_id \in game_sessions
    /\ state.round = 3
    /\ state.player_round_scores[2] # None
    /\ state.dealer_round_scores[2] # None
    /\ state.player_round_scores[3] = None

\* C14: an interaction of one user (start, DRAW, STAND, joker selection, play
\* again) leaves the session of every other user as it is: no entry of
\* another user appears, disappears or changes its deck, hands, round
\* counter or score arrays
C14_SessionsIsolated ==
    [][\A u \in users : u # actor' =>
          /\ (u \in DOMAIN sessions') <=> (u \in DOMAIN sessions)
          /\ u \in DOMAIN sessions => sessions'[u] = sessions[u]]_vars

\* C14 witness: two users have sessions in different rounds, one with a
\* joker selection open, and the other has just acted
C14_Witness ==
    /\ DOMAIN sessions = users
    /\ sessions[user_id].round = 2
    /\ sessions["u2"].round = 3
    /\ user_id \in joker_views
    /\ actor = "u2"

\* C15: an entry of the session map always refers to a game whose round
\* counter is at most 3: a game that has concluded has no entry
C15_NoEntryOfConcludedGame ==
    user_id \in game_sessions => state.round <= 3

\* the pcs of a handler inside auto_stand
auto_pcs == {"auto_stand", "auto_loop"}

\* C16: a DRAW on a round that is not auto-concluded goes on to the automatic
\* stand when it leaves the player's round_score above 30 or at 30, and the
\* settlement that ends the automatic stand records 0 for the player in the
\* first case and 30 in the second; otherwise the DRAW leaves the round
\* counter, both score arrays and the dealer as they were and the handler is
\* done, so that the player may act again
C16_DrawOutcomes ==
    [][\A h \in DOMAIN pc :
          /\ pc[h] = "draw" /\ ~session_state.player_done =>
                LET s0 == session_state
                    score == state'.player.round_score
                IN  /\ score > 30 => pc'[h] = "auto_stand" /\ busted'[h]
                    /\ score = 30 => pc'[h] = "auto_stand" /\ ~busted'[h]
                    /\ score < 30 =>
                          /\ pc'[h] = "idle"
                          /\ state'.round = s0.round
                          /\ state'.player_round_scores = s0.player_round_scores
                          /\ state'.dealer_round_scores = s0.dealer_round_scores
                          /\ state'.dealer = s0.dealer
          /\ pc[h] \in auto_pcs /\ pc'[h] \in auto_pcs =>
                state'.player = state.player /\ state'.round = state.round
          /\ pc[h] \in auto_pcs /\ pc'[h] \notin auto_pcs =>
                /\ state.player.round_score >= 30
                /\ state'.player_round_scores[state.round] =
                      IF state.player.round_score > 30 THEN 0 ELSE 30
                /\ state'.round = state.round + 1]_vars

\* C16 witness: a DRAW has taken the player to 30 exactly, on a round that
\* was not auto-concluded, and the automatic stand is about to run
C16_Witness ==
    /\ \E h \in DOMAIN pc : pc[h] = "auto_stand" /\ ~busted[h]
    /\ ~state.player_done
    /\ Len(state.player.hand) > 2
    /\ state.player.round_score = 30

\* C17: when the player selects a value for a drawn joker the joker is scored
\* with it: round_score after the selection is round_score before it (the
\* score before the draw, the joker having been added with 0) plus the value
C17_ChosenValueIsScored ==
    [][selections' = selections + 1 =>
          LET n == Len(state.player.hand)
          IN  state'.player.round_score =
                 state.player.round_score + state'.player.hand[n][2] - state.player.hand[n][2]]_vars

\* the values a card may carry in a hand
joker_values == {possible_values[i] : i \in 1..Len(possible_values)}

\* C18: every (card, value) pair of either hand carries the rank of the card
\* when the card is not a joker and one of 1, 2, 3, 4, 5, 6, 7, 10, 11, 12
\* when it is, jokers dealt to the player and jokers awaiting a selection
\* included
C18_AssignedValues ==
    \A p \in participants : \A i \in 1..Len(p.hand) :
        IF p.hand[i][1].is_joker
        THEN p.hand[i][2] \in joker_values
        ELSE p.hand[i][2] = p.hand[i][1].rank

\* the cards of a hand, in the order they were added
CardsOf(hand) == [i \in 1..Len(hand) |-> hand[i][1]]

\* s is what a deal from the deck d leaves: the player holds the two cards at
\* the front of d and nothing else, the dealer the next two, the deck is the
\* rest of d; nobody is busted, the dealer's cards carry their rank or, for a
\* joker, 10, and the dealer's round_score is their sum
Dealt(d, s) ==
    LET n == Len(d)
    IN  /\ CardsOf(s.player.hand) = SubSeq(d, 1, Min(2, n))
        /\ CardsOf(s.dealer.hand) = SubSeq(d, Min(2, n) + 1, Min(4, n))
        /\ s.deck = SubSeq(d, Min(4, n) + 1, n)
        /\ ~s.player.is_busted /\ ~s.dealer.is_busted
        /\ \A i \in 1..Len(s.dealer.hand) :
              s.dealer.hand[i][2] = IF s.dealer.hand[i][1].is_joker THEN 10
                                    ELSE s.dealer.hand[i][1].rank
        /\ s.dealer.round_score = SumValues(s.dealer.hand)
        /\ s.player.round_score = IF two_jokers(s.player) THEN 30
                                  ELSE RankSum(s.player.hand)

\* the deck `a` is what is left of the deck `b` after some draws
IsRestOf(a, b) == Len(a) <= Len(b) /\ a = SubSeq(b, Len(b) - Len(a) + 1, Len(b))

\* C19: every round starts from a deal as Dealt describes it: the first round
\* of a new session from the shuffled deck, every later round (the step that
\* settles the round before it) from the deck as the round before left it;
\* no step of a handler puts a card back or reorders the deck
C19_RoundStartDeal ==
    [][/\ ((\A h \in DOMAIN pc : pc[h] = "idle" /\ pc'[h] = "idle") /\ selections' = 0) =>
             state'.round = 1 /\ Dealt(shuffled, state')
       /\ \A h \in DOMAIN pc :
             LET s0 == IF pc[h] \in {"draw", "stand"} THEN session_state ELSE state
             IN  /\ pc[h] \in loop_pcs /\ pc'[h] = "idle" =>
                       state'.round = s0.round + 1 /\ Dealt(s0.deck, state')
                 /\ pc[h] # "idle" => IsRestOf(state'.deck, s0.deck)]_vars

\* C19 witness: round 2 has just been dealt from the fifth to the eighth card
\* of the shuffled deck, a joker among the player's cards
C19_Witness ==
    /\ user_id \in game_sessions
    /\ \A h \in DOMAIN pc : pc[h] = "idle"
    /\ state.round = 2
    /\ Len(shuffled) >= 8
    /\ CardsOf(state.player.hand) = SubSeq(shuffled, 5, 6)
    /\ CardsOf(state.dealer.hand) = SubSeq(shuffled, 7, 8)
    /\ state.player.hand[1][1].is_joker

\* C20: the dealer is handed a card within a round only by the dealer loop
\* and only while its round_score is below 24 and it is not busted; a round
\* is settled only with the dealer at 24 or more or with the deck empty,
\* which also holds for the dealer Dealer.play leaves; and a recorded dealer
\* score that is not 0 is between 24 and 30
C20_DealerStandsFrom24 ==
    [][/\ \A h \in DOMAIN pc :
             LET s0 == IF pc[h] \in {"draw", "stand"} THEN session_state ELSE state
             IN  /\ (pc[h] # "idle" /\ state'.round = s0.round
                        /\ state'.dealer # s0.dealer) =>
                       /\ pc[h] \in loop_pcs
                       /\ s0.dealer.round_score < 24
                       /\ ~s0.dealer.is_busted
                 /\ pc[h] \in loop_pcs /\ pc'[h] \notin loop_pcs =>
                       s0.dealer.round_score >= 24 \/ s0.deck = <<>>
       /\ LET r == play(state.dealer, state.deck)
          IN  r.dealer.round_score >= 24 \/ r.deck = <<>>
       /\ \A i \in 1..3 :
             state'.dealer_round_scores[i] \notin {None, 0} =>
                state'.dealer_round_scores[i] \in 24..30]_vars

\* C20 witness: the dealer has drawn its way to a score from 25 to 30 and
\* the loop is about to end
C20_Witness ==
    /\ \E h \in DOMAIN pc : pc[h] \in in_loop_pcs /\ c[h] # NoCard
    /\ Len(state.dealer.hand) >= 3
    /\ state.dealer.round_score \in 25..30

\* C21: a DRAW or STAND handler that finds no entry for the user works on a
\* session start_game has just built from the shuffled deck (round 1, no
\* score set, two cards for each participant, the rest as the deck) and
\* stores it under the user; the request is then carried out on that
\* session without an error: the DRAW adds the next card to the player's
\* two, the STAND lets the dealer draw or settles round 1
C21_NoSessionStartsOne ==
    [][\A h \in DOMAIN pc :
          (pc[h] \in {"draw", "stand"} /\ user_id \notin game_sessions /\ pc'[h] # pc[h]) =>
             LET s0 == start_game(shuffled)
                 next_card == IF s0.deck = <<>> THEN <<>> ELSE <<Head(s0.deck)>>
             IN  /\ s0.round = 1
                 /\ s0.player_round_scores = <<None, None, None>>
                 /\ s0.dealer_round_scores = <<None, None, None>>
                 /\ Len(s0.player.hand) = 2 /\ Len(s0.dealer.hand) = 2
                 /\ s0.deck = SubSeq(shuffled, 5, Len(shuffled))
                 /\ user_id \in game_sessions'
                 /\ final_title' = "none"
                 /\ pc[h] = "draw" =>
                       /\ state'.round = 1
                       /\ state'.dealer = s0.dealer
                       /\ CardsOf(state'.player.hand) = CardsOf(s0.player.hand) \o next_card
                       /\ state'.deck = SubSeq(s0.deck, Len(next_card) + 1, Len(s0.deck))
                 /\ pc[h] = "stand" /\ pc'[h] = "stand_loop" =>
                       /\ state'.round = 1
                       /\ state'.player = s0.player
                       /\ s0.dealer.round_score < 24
                 /\ pc[h] = "stand" /\ pc'[h] # "stand_loop" =>
                       /\ pc'[h] = "idle"
                       /\ state'.round = 2
                       /\ state'.player_round_scores[1] = s0.player.round_score
                       /\ state'.dealer_round_scores[1] = s0.dealer.round_score]_vars

\* C21 witness: a game is over and its entry removed, and the handler of a
\* STAND pressed after that is about to look the session up
C21_Witness ==
    /\ user_id \notin game_sessions
    /\ state.round = 4
    /\ \E h \in DOMAIN pc : pc[h] = "stand"

\* the cards of the shuffled deck at the positions first..last
Segment(first, last) == SubSeq(shuffled, first, last)

\* C22: with two handlers of one session interleaved at their awaits, the
\* deck is always what is left of the session's shuffled deck below the
\* cards taken from its front, in the same order; the cards in the two hands
\* are, card for card, the last cards taken (no card is in both hands or
\* twice in one), the cards before them are those of the rounds already
\* played; and a draw from a non-empty deck returns its front card and
\* leaves the rest as it was
C22_CardsConserved ==
    LET taken == Len(shuffled) - Len(state.deck)
        held == Len(state.player.hand) + Len(state.dealer.hand)
    IN  /\ IsRestOf(state.deck, shuffled)
        /\ shuffled = Segment(1, taken) \o state.deck
        /\ held <= taken
        /\ \A x \in CardPool :
              Count(x, CardsOf(state.player.hand)) + Count(x, CardsOf(state.dealer.hand))
                 = Count(x, Segment(taken - held + 1, taken))
        /\ state.deck # <<>> =>
              /\ draw_card(state.deck).card = state.deck[1]
              /\ <<draw_card(state.deck).card>> \o draw_card(state.deck).deck = state.deck

\* C22 witness: both handlers are inside a dealer loop of the same session,
\* in a round after the first, and the dealer has drawn a card
C22_Witness ==
    /\ \A h \in DOMAIN pc : pc[h] \in in_loop_pcs
    /\ Cardinality(DOMAIN pc) = 2
    /\ state.round > 1
    /\ Len(state.dealer.hand) > 2

\* C23: with two handlers of one session interleaved at their awaits, every
\* handler that leaves its dealer loop settles the round it is in, once:
\* the round counter is 1, 2 or 3 (the score index is in 0..2), the counter
\* goes up by one, the slot of that round gets the score of the hand the
\* player holds (0 when that hand is busted), and no other handler is left
\* inside a dealer loop it entered in the round just settled (it would go
\* on to settle the hands dealt for the next round)
C23_RoundsSettledOnce ==
    [][\A h \in DOMAIN pc :
          (pc[h] \in loop_pcs /\ pc'[h] \notin loop_pcs) =>
             LET s0 == IF pc[h] = "stand" THEN session_state ELSE state
             IN  /\ s0.round \in 1..3
                 /\ state'.round = s0.round + 1
                 /\ state'.player_round_scores[s0.round]
                       = IF s0.player.is_busted THEN 0 ELSE s0.player.round_score
                 /\ \A g \in DOMAIN pc \ {h} : pc[g] \notin holding_pcs]_vars

\* C24: the removal at game over removes only the concluded game: when the
\* handler suspended in check_game_end finishes while the session stored
\* under the user is a game still in play (one started by the command or by
\* PLAY AGAIN in the meantime), the user's entry is still in the map
C24_RemovesOnlyConcludedGame ==
    [][\A h \in DOMAIN pc :
          (pc[h] = "game_end" /\ pc'[h] = "idle"
              /\ user_id \in game_sessions /\ state.round \in 1..3) =>
             user_id \in game_sessions']_vars

\* the values of the list of assign_joker_value
listed_values == {possible_values[i] : i \in 1..Len(possible_values)}

\* C25: in Dealer.play a joker never busts the dealer: whenever a pass of
\* the loop adds a joker, the score before it was below 24, some listed
\* value fits within 30, the value assigned is a listed value that fits (not
\* the fallback taken when none fits) and the dealer is not busted after
\* it; a pass after which the dealer is busted added a ranked card
C25_JokerNeverBustsDealer ==
    [][\A h \in DOMAIN pc :
          (pc[h] = "play" /\ state'.dealer # state.dealer) =>
             LET d == state.dealer
                 after == state'.dealer
                 added == after.hand[Len(after.hand)]
             IN  /\ Len(after.hand) = Len(d.hand) + 1
                 /\ added[1].is_joker =>
                       /\ d.round_score < 24
                       /\ \E v \in listed_values : d.round_score + v <= 30
                       /\ added[2] \in listed_values
                       /\ d.round_score + added[2] <= 30
                       /\ after.round_score <= 30
                       /\ ~after.is_busted
                 /\ after.is_busted => ~added[1].is_joker /\ added[2] = added[1].rank]_vars

\* C25 witness: play drew a joker at 23 and gave it 7, the only listed
\* value that brings it to 30; the dealer stands at 30, not busted
C25_Witness ==
    /\ \E h \in DOMAIN pc : pc[h] = "play" /\ c[h] = Joker
    /\ policy_value = 7
    /\ state.dealer.round_score = 30
    /\ ~state.dealer.is_busted

====
